---- MODULE Spec2Model ----
(***************************************************************************)
(* The 3D wireframe renderer of src/rotation_marker.js (lines 91-348):     *)
(* the OBJ loader, the pointer handlers, the animate loop with its drag    *)
(* inertia, and the dot / line style resolver.                             *)
(*                                                                         *)
(* JavaScript numbers are modelled as exact extended rationals: a record   *)
(* [n, d] with d > 0 in lowest terms is the number n/d, [1,0] and [-1,0]   *)
(* are +Infinity and -Infinity, [0,0] is NaN.  Floating-point rounding is  *)
(* not modelled.                                                           *)
(***************************************************************************)
EXTENDS Integers, Sequences, FiniteSets, TLC

VARIABLES
    pc,             \* startup / frame-loop position of the Frame Driver
    path,           \* matches[0] of loadFirstOBJ, "" before discovery
    response,       \* the model fetch's response ([ok, body]), NoResponse before
    vertices,       \* let vertices (line 142)
    faces,          \* let faces (line 143)
    rotationMatrix, \* let rotationMatrix (line 144)
    velX, velY,     \* lines 145-146
    dragging,       \* line 147
    lastX, lastY,   \* line 148
    mouseX, mouseY, \* lines 151-152
    frame,          \* history: number of animate calls so far
    events,         \* history: number of pointer events so far
    kTicks,         \* history: animate calls since the velocity was last set
    v0X, v0Y,       \* history: the velocity a mousemove last set
    moved,          \* history: the current gesture had a mousemove
    everDragMove,   \* history: some mousemove arrived while dragging
    text,           \* loader harness: the model text handed to loadOBJ
    loadPc,         \* loader harness: "input" or "returned"
    p,              \* style harness: a projected point / face centroid [x, y, z]
    stylePc,        \* style harness: "input", "dot" or "line"
    drawn,          \* style harness: ctx.arc added the dot's circle to the path
    radius,         \* style harness: the radius handed to ctx.arc
    alpha,          \* style harness: the alpha of fillStyle / strokeStyle
    cursorSizeEffect, cursorAlphaEffect, \* style harness: the boost terms
    cursorFactor    \* style harness: the cursor proximity factor

vars == <<pc, path, response, vertices, faces, rotationMatrix, velX, velY,
          dragging, lastX, lastY, mouseX, mouseY, frame, events, kTicks, v0X,
          v0Y, moved, everDragMove, text, loadPc, p, stylePc, drawn, radius,
          alpha, cursorSizeEffect, cursorAlphaEffect, cursorFactor>>

(***************************************************************************)
(* Bounds of the model.                                                    *)
(***************************************************************************)
MaxPixel == 1         \* clientX, clientY are at most MaxPixel
MaxFrames == 2        \* animate calls explored
MaxEvents == 5        \* pointer events explored
MaxLines == 4         \* lines of a model text
MaxCoordK == 6        \* projected coordinates are k * CoordStep, k <= MaxCoordK
MaxDepth == 1000000   \* the extreme depth fed to the style resolver

(***************************************************************************)
(* Numbers.                                                                *)
(***************************************************************************)
RECURSIVE GCD(_, _)
GCD(a, b) == IF b = 0 THEN a ELSE GCD(b, a % b)

AbsInt(i) == IF i < 0 THEN -i ELSE i
SignInt(i) == IF i < 0 THEN -1 ELSE IF i > 0 THEN 1 ELSE 0

NaN == [n |-> 0, d |-> 0]
Infinity == [n |-> 1, d |-> 0]
NegInfinity == [n |-> -1, d |-> 0]

\* the number n/d, d # 0, in lowest terms with a positive denominator
Rat(n, d) ==
    LET g == GCD(AbsInt(n), AbsInt(d))
        s == IF d < 0 THEN -1 ELSE 1
    IN [n |-> s * (n \div g), d |-> s * (d \div g)]

Num(i) == [n |-> i, d |-> 1]
Zero == Num(0)
One == Num(1)

IsNaN(a) == a.d = 0 /\ a.n = 0
IsInf(a) == a.d = 0 /\ a.n # 0
IsFinite(a) == a.d # 0

\* a/b < c/d for a, c >= 0 and b, d > 0, without forming the cross products
RECURSIVE FracLess(_, _, _, _)
FracLess(a, b, c, d) ==
    LET q1 == a \div b
        q2 == c \div d
        r1 == a % b
        r2 == c % d
    IN IF q1 # q2 THEN q1 < q2
       ELSE IF r2 = 0 THEN FALSE
       ELSE IF r1 = 0 THEN TRUE
       ELSE FracLess(d, r2, b, r1)

\* the < of JavaScript: false when either side is NaN
Less(a, b) ==
    IF IsNaN(a) \/ IsNaN(b) THEN FALSE
    ELSE IF IsInf(a) \/ IsInf(b) THEN
        IF IsInf(a) /\ IsInf(b) THEN a.n < b.n
        ELSE IF IsInf(a) THEN a.n < 0
        ELSE b.n > 0
    ELSE IF a.n < 0 /\ b.n >= 0 THEN TRUE
    ELSE IF a.n >= 0 /\ b.n < 0 THEN FALSE
    ELSE IF a.n >= 0 THEN FracLess(a.n, a.d, b.n, b.d)
    ELSE FracLess(-b.n, b.d, -a.n, a.d)

Greater(a, b) == Less(b, a)
LessEq(a, b) == ~IsNaN(a) /\ ~IsNaN(b) /\ ~Less(b, a)

Neg(a) == [n |-> -a.n, d |-> a.d]

Add(a, b) ==
    IF IsNaN(a) \/ IsNaN(b) THEN NaN
    ELSE IF IsInf(a) /\ IsInf(b) THEN (IF a.n = b.n THEN a ELSE NaN)
    ELSE IF IsInf(a) THEN a
    ELSE IF IsInf(b) THEN b
    ELSE Rat(a.n * b.d + b.n * a.d, a.d * b.d)

Sub(a, b) == Add(a, Neg(b))

Mul(a, b) ==
    IF IsNaN(a) \/ IsNaN(b) THEN NaN
    ELSE IF IsInf(a) \/ IsInf(b) THEN
        (IF a.n = 0 \/ b.n = 0 THEN NaN
         ELSE [n |-> SignInt(a.n) * SignInt(b.n), d |-> 0])
    ELSE Rat(a.n * b.n, a.d * b.d)

\* a / b; the sign of a zero is not modelled (x / 0 is +-Infinity by x's sign)
Div(a, b) ==
    IF IsNaN(a) \/ IsNaN(b) THEN NaN
    ELSE IF IsInf(a) THEN
        (IF IsInf(b) THEN NaN
         ELSE [n |-> a.n * (IF b.n < 0 THEN -1 ELSE 1), d |-> 0])
    ELSE IF IsInf(b) THEN Zero
    ELSE IF b.n = 0 THEN
        (IF a.n = 0 THEN NaN ELSE [n |-> SignInt(a.n), d |-> 0])
    ELSE Rat(a.n * b.d, a.d * b.n)

\* Math.abs
Abs(a) == [n |-> AbsInt(a.n), d |-> a.d]

\* Math.min / Math.max of two numbers: NaN when either is NaN
Min2(a, b) == IF IsNaN(a) \/ IsNaN(b) THEN NaN ELSE IF Less(b, a) THEN b ELSE a
Max2(a, b) == IF IsNaN(a) \/ IsNaN(b) THEN NaN ELSE IF Less(a, b) THEN b ELSE a

\* Math.min(...xs) / Math.max(...xs): +Infinity / -Infinity of no arguments
RECURSIVE MinOf(_)
MinOf(xs) == IF xs = <<>> THEN Infinity ELSE Min2(Head(xs), MinOf(Tail(xs)))
RECURSIVE MaxOf(_)
MaxOf(xs) == IF xs = <<>> THEN NegInfinity ELSE Max2(Head(xs), MaxOf(Tail(xs)))

RECURSIVE Pow(_, _)
Pow(a, k) == IF k = 0 THEN One ELSE Mul(a, Pow(a, k - 1))

(***************************************************************************)
(* Configuration (lines 105-137).                                          *)
(***************************************************************************)
modelScale == 300
dragSensitivity == Rat(1, 100)
rotationInertia == Rat(99, 100)

dotMinSize == 2
dotMaxSize == 15
dotMinAlpha == Rat(5, 100)
dotMaxAlpha == 1
dotSizeDepthEffect == Rat(5, 100)
dotSizeOffset == Rat(-3, 10)
dotAlphaDepthEffect == Rat(3, 1000)
dotAlphaOffset == Rat(1, 100)
dotCursorEffectRadius == 150
dotCursorSizeBoost == 10
dotCursorAlphaBoost == 1
dotCursorZCutoff == 0

lineMinAlpha == 0
lineMaxAlpha == 1
lineAlphaOffset == 0
lineCursorEffectRadius == 100
lineCursorAlphaBoost == 1
lineCursorZCutoff == 0

(***************************************************************************)
(* OBJ loader (lines 175-217).  A model text is a sequence of lines, a     *)
(* line the sequence of tokens that trim() and split(/\s+/) give, a token  *)
(* a sequence of characters.                                               *)
(***************************************************************************)
Digits == <<"0", "1", "2", "3", "4", "5", "6", "7", "8", "9">>
IsDigit(c) == \E i \in 1..10 : Digits[i] = c
DigitVal(c) == (CHOOSE i \in 1..10 : Digits[i] = c) - 1

\* the longest prefix of s made of digits
RECURSIVE TakeDigits(_)
TakeDigits(s) ==
    IF s = <<>> \/ ~IsDigit(Head(s)) THEN <<>>
    ELSE <<Head(s)>> \o TakeDigits(Tail(s))

RECURSIVE DigitsToInt(_)
DigitsToInt(ds) ==
    IF ds = <<>> THEN 0
    ELSE 10 * DigitsToInt(SubSeq(ds, 1, Len(ds) - 1)) + DigitVal(ds[Len(ds)])

RECURSIVE Pow10(_)
Pow10(k) == IF k = 0 THEN 1 ELSE 10 * Pow10(k - 1)

HasSign(s) == s # <<>> /\ Head(s) \in {"-", "+"}
Unsigned(s) == IF HasSign(s) THEN Tail(s) ELSE s
SignOf(s) == IF s # <<>> /\ Head(s) = "-" THEN -1 ELSE 1

\* parseInt(s, 10): an optional sign and the digits that follow, NaN without a digit
parseInt(s) ==
    LET ds == TakeDigits(Unsigned(s))
    IN IF ds = <<>> THEN NaN ELSE Num(SignOf(s) * DigitsToInt(ds))

\* parseFloat(s): sign, digits, an optional fraction; NaN without a digit
\* (exponents and the literal Infinity are outside the token alphabet)
parseFloat(s) ==
    LET u == Unsigned(s)
        ip == TakeDigits(u)
        rest == SubSeq(u, Len(ip) + 1, Len(u))
        fp == IF rest # <<>> /\ Head(rest) = "." THEN TakeDigits(Tail(rest)) ELSE <<>>
    IN IF ip = <<>> /\ fp = <<>> THEN NaN
       ELSE Rat(SignOf(s) * (DigitsToInt(ip) * Pow10(Len(fp)) + DigitsToInt(fp)),
                Pow10(Len(fp)))

\* p.split("/")[0]
RECURSIVE BeforeSlash(_)
BeforeSlash(s) ==
    IF s = <<>> \/ Head(s) = "/" THEN <<>>
    ELSE <<Head(s)>> \o BeforeSlash(Tail(s))

\* line.startsWith("v ") / line.startsWith("f ") after trim()
StartsWith(line, marker) == Len(line) >= 2 /\ line[1] = <<marker>>

\* parseFloat(parts[k]); parts[k] is undefined past the end and parses to NaN
PartFloat(parts, k) == IF k + 1 <= Len(parts) THEN parseFloat(parts[k + 1]) ELSE NaN

\* lines 182-188: the vertex a "v " line pushes
VertexOf(line) == <<PartFloat(line, 1), PartFloat(line, 2), PartFloat(line, 3)>>

\* lines 189-191: the face an "f " line pushes
FaceOf(line) ==
    [i \in 1..(Len(line) - 1) |-> Sub(parseInt(BeforeSlash(line[i + 1])), One)]

\* the verts / facs arrays after the forEach of lines 180-193
RECURSIVE ParseVerts(_)
ParseVerts(t) ==
    IF t = <<>> THEN <<>>
    ELSE (IF StartsWith(Head(t), "v") THEN <<VertexOf(Head(t))>> ELSE <<>>)
         \o ParseVerts(Tail(t))

RECURSIVE ParseFaces(_)
ParseFaces(t) ==
    IF t = <<>> THEN <<>>
    ELSE (IF ~StartsWith(Head(t), "v") /\ StartsWith(Head(t), "f")
          THEN <<FaceOf(Head(t))>> ELSE <<>>)
         \o ParseFaces(Tail(t))

Axis(verts, a) == [i \in 1..Len(verts) |-> verts[i][a]]

\* lines 200-202
Center(verts, a) ==
    Div(Add(MinOf(Axis(verts, a)), MaxOf(Axis(verts, a))), Num(2))

Span(verts, a) == Sub(MaxOf(Axis(verts, a)), MinOf(Axis(verts, a)))

\* lines 204-208
MaxSize(verts) == Max2(Span(verts, 1), Max2(Span(verts, 2), Span(verts, 3)))

NormalizeByXSpan(verts) ==
    [i \in 1..Len(verts) |->
        [a \in 1..3 |->
            Mul(Div(Sub(verts[i][a], Center(verts, a)), Span(verts, 1)),
                Num(modelScale))]]

\* lines 210-214
Normalize(verts) ==
    [i \in 1..Len(verts) |->
        [a \in 1..3 |->
            Mul(Div(Sub(verts[i][a], Center(verts, a)), MaxSize(verts)),
                Num(modelScale))]]

loadOBJ(t) == [verts |-> Normalize(ParseVerts(t)), facs |-> ParseFaces(t)]

(***************************************************************************)
(* Model texts.                                                            *)
(***************************************************************************)
Tv == <<"v">>
Tf == <<"f">>
T0 == <<"0">>
T1 == <<"1">>
T2 == <<"2">>
T4 == <<"4">>

LineV000 == <<Tv, T0, T0, T0>>                        \* v 0 0 0
LineV210 == <<Tv, T2, T1, T0>>                        \* v 2 1 0
LineVFrac == <<Tv, <<"-", "1">>, T4, <<"2", ".", "5">>>>  \* v -1 4 2.5
LineVBad == <<Tv, <<"x">>, T0, T0>>                   \* v x 0 0
LineF123 == <<Tf, T1, <<"2", "/", "2">>, <<"3", "/", "/", "3">>>>  \* f 1 2/2 3//3
LineF124 == <<Tf, T1, T2, T4>>                        \* f 1 2 4
LineFNeg == <<Tf, <<"-", "1">>, <<"-", "2">>, <<"-", "3">>>>      \* f -1 -2 -3
LineOther == <<<<"v", "n">>, T0, T0, T1>>             \* vn 0 0 1

LineSet == {LineV000, LineV210, LineVFrac, LineVBad,
            LineF123, LineF124, LineFNeg, LineOther}

\* every text of at most MaxLines lines of LineSet
Texts == UNION {[1..k -> LineSet] : k \in 0..MaxLines}

\* the bodies the model URL serves in the startup specification
Triangle == <<LineV000, LineV210, LineVFrac, LineF123>>
TriangleBadFace == <<LineV000, LineV210, LineVFrac, LineF124>>
ErrorPage == <<<<<<"<", "h", "1", ">">>, T4, T0, T4>>>>   \* <h1> 404

(***************************************************************************)
(* Matrix helpers (lines 320-324).  The entries of a rotation are cosines  *)
(* and sines of a rational angle; a matrix is kept as the product that     *)
(* built it, newest factor first.  cos(0) = 1 and sin(0) = 0 exactly, so a *)
(* rotation by 0 is the identity; equal products are equal matrices.       *)
(***************************************************************************)
identityMatrix == <<>>
multiplyMatrices(a, b) == a \o b
rotationMatrixX(angle) ==
    IF angle = Zero THEN identityMatrix ELSE <<[axis |-> "X", angle |-> angle]>>
rotationMatrixY(angle) ==
    IF angle = Zero THEN identityMatrix ELSE <<[axis |-> "Y", angle |-> angle]>>

(***************************************************************************)
(* Pointer handlers (lines 154-170).                                       *)
(***************************************************************************)
\* the variables of the loader and style harnesses, idle in the startup and
\* frame-loop specification
harnessVars == <<text, loadPc, p, stylePc, drawn, radius, alpha, cursorSizeEffect,
                 cursorAlphaEffect, cursorFactor>>

\* the pointer positions events carry: the pixels of the top row and of the
\* left column of the canvas
Pixels == 0..MaxPixel
PointerAt == {<<x, 0>> : x \in Pixels} \cup {<<0, y>> : y \in Pixels}
canvasWidth == MaxPixel + 1
canvasHeight == MaxPixel + 1

mousedown(x, y) ==
    /\ events < MaxEvents
    /\ events' = events + 1
    /\ UNCHANGED harnessVars
    /\ dragging' = TRUE
    /\ lastX' = x
    /\ lastY' = y
    /\ moved' = FALSE
    /\ UNCHANGED <<pc, path, response, vertices, faces, rotationMatrix, velX, velY,
                   mouseX, mouseY, frame, kTicks, v0X, v0Y, everDragMove>>

mouseup ==
    /\ events < MaxEvents
    /\ events' = events + 1
    /\ UNCHANGED harnessVars
    /\ dragging' = FALSE
    /\ UNCHANGED <<pc, path, response, vertices, faces, rotationMatrix, velX, velY,
                   lastX, lastY, mouseX, mouseY, frame, kTicks, v0X, v0Y, moved,
                   everDragMove>>

mousemoveWithoutDragTest(x, y) ==
    /\ events < MaxEvents
    /\ events' = events + 1
    /\ UNCHANGED harnessVars
    /\ mouseX' = Num(x)
    /\ mouseY' = Num(y)
    /\ velY' = Mul(IF lastX = -1 THEN NaN ELSE Num(x - lastX), Neg(dragSensitivity))
    /\ velX' = Mul(IF lastY = -1 THEN NaN ELSE Num(y - lastY), dragSensitivity)
    /\ lastX' = x
    /\ lastY' = y
    /\ v0X' = velX'
    /\ v0Y' = velY'
    /\ kTicks' = 0
    /\ moved' = TRUE
    /\ everDragMove' = (everDragMove \/ dragging)
    /\ UNCHANGED <<pc, path, response, vertices, faces, rotationMatrix, dragging,
                   frame>>

mousemove(x, y) ==
    /\ events < MaxEvents
    /\ events' = events + 1
    /\ UNCHANGED harnessVars
    /\ mouseX' = Num(x)
    /\ mouseY' = Num(y)
    /\ IF dragging
       THEN /\ velY' = Mul(Num(x - lastX), Neg(dragSensitivity))
            /\ velX' = Mul(Num(y - lastY), dragSensitivity)
            /\ lastX' = x
            /\ lastY' = y
            /\ v0X' = velX'
            /\ v0Y' = velY'
            /\ kTicks' = 0
            /\ moved' = TRUE
            /\ everDragMove' = TRUE
       ELSE UNCHANGED <<velX, velY, lastX, lastY, v0X, v0Y, kTicks, moved,
                        everDragMove>>
    /\ UNCHANGED <<pc, path, response, vertices, faces, rotationMatrix, dragging,
                   frame>>

(***************************************************************************)
(* Main loop (lines 222-315).  The canvas is an output, not state; the     *)
(* styles animate draws are the operators of the style resolver below.     *)
(***************************************************************************)
\* line 226
Integrates(vx, vy) ==
    \/ Greater(Abs(vx), Rat(1, 10000))
    \/ Greater(Abs(vy), Add(Rat(1, 10000), Rat(1, 100)))

\* projected[idx] is an element of projected (one per vertex)
Defined(idx, len) == idx.d = 1 /\ 0 <= idx.n /\ idx.n < len

\* lines 244-246: projected[idx][0] of an undefined projected[idx] throws
Throws(verts, facs) ==
    \E i \in 1..Len(facs) : \E j \in 1..Len(facs[i]) :
        ~Defined(facs[i][j], Len(verts))

\* one call of animate() on vertices', faces'
animateKeepsDragVelocity ==
    /\ IF Integrates(velX, velY)
       THEN /\ rotationMatrix' =
                   multiplyMatrices(rotationMatrixY(velY),
                       multiplyMatrices(rotationMatrixX(velX), rotationMatrix))
            /\ velX' = IF dragging THEN velX ELSE Mul(velX, rotationInertia)
            /\ velY' = IF dragging THEN velY ELSE Mul(velY, rotationInertia)
       ELSE UNCHANGED <<rotationMatrix, velX, velY>>
    /\ pc' = IF Throws(vertices', faces') THEN "threw" ELSE "running"
    /\ frame' = frame + 1
    /\ kTicks' = kTicks + 1

animate ==
    /\ IF Integrates(velX, velY)
       THEN /\ rotationMatrix' =
                   multiplyMatrices(rotationMatrixY(velY),
                       multiplyMatrices(rotationMatrixX(velX), rotationMatrix))
            /\ velX' = Mul(velX, rotationInertia)
            /\ velY' = Mul(velY, rotationInertia)
       ELSE UNCHANGED <<rotationMatrix, velX, velY>>
    /\ pc' = IF Throws(vertices', faces') THEN "threw" ELSE "running"
    /\ frame' = frame + 1
    /\ kTicks' = kTicks + 1

\* the requestAnimationFrame callback of line 314
Frame ==
    /\ UNCHANGED <<events, harnessVars>>
    /\ pc = "running"
    /\ frame < MaxFrames
    /\ UNCHANGED <<vertices, faces>>
    /\ animate
    /\ UNCHANGED <<path, response, dragging, lastX, lastY, mouseX, mouseY, v0X, v0Y,
                   moved, everDragMove>>

(***************************************************************************)
(* Start (lines 329-348).  The directory listing is the sequence of hrefs  *)
(* in the HTML, each a file stem and an extension.                         *)
(***************************************************************************)
Href(stem, ext) == [stem |-> stem, ext |-> ext]
Listings == {<<>>,
             <<Href("icon", "svg")>>,
             <<Href("cube", "obj")>>,
             <<Href("torus", "obj"), Href("icon", "svg"), Href("cube", "obj")>>}

\* lexicographic order of the stems in use
StemRank(stem) == CASE stem = "cube" -> 1 [] stem = "icon" -> 2 [] stem = "torus" -> 3

\* line 334: the hrefs that end in .obj
Matches(listing) == SelectSeq(listing, LAMBDA h : h.ext = "obj")

\* lines 338-339: matches.sort(); matches[0]
FirstSorted(matches) ==
    LET first == CHOOSE i \in 1..Len(matches) :
                     \A j \in 1..Len(matches) :
                         StemRank(matches[i].stem) <= StemRank(matches[j].stem)
    IN matches[first].stem

NoResponse == [ok |-> FALSE, body |-> <<>>, none |-> TRUE]
Resp(ok, body) == [ok |-> ok, body |-> body, none |-> FALSE]
Responses == {Resp(TRUE, Triangle), Resp(TRUE, TriangleBadFace),
              Resp(FALSE, ErrorPage)}

\* lines 330-339: fetch("center_object/") resolved with a listing
DirectoryFetched(listing) ==
    /\ UNCHANGED <<events, harnessVars>>
    /\ pc = "discovering"
    /\ IF Len(Matches(listing)) = 0
       THEN /\ pc' = "rejected"
            /\ path' = path
       ELSE /\ pc' = "fetching"
            /\ path' = FirstSorted(Matches(listing))
    /\ UNCHANGED <<response, vertices, faces, rotationMatrix, velX, velY, dragging,
                   lastX, lastY, mouseX, mouseY, frame, kTicks, v0X, v0Y, moved,
                   everDragMove>>

\* a fetch rejected (network error): the promise chain rejects, .then never runs
FetchRejected ==
    /\ UNCHANGED <<events, harnessVars>>
    /\ pc \in {"discovering", "fetching"}
    /\ pc' = "rejected"
    /\ UNCHANGED <<path, response, vertices, faces, rotationMatrix, velX, velY,
                   dragging, lastX, lastY, mouseX, mouseY, frame, kTicks, v0X, v0Y,
                   moved, everDragMove>>

\* lines 176-216 and 343-347: fetch(path) resolved with r (r.ok is not read),
\* loadOBJ parses r's body, the .then callback stores the model and calls animate()
ModelFetched(r) ==
    /\ UNCHANGED <<events, harnessVars>>
    /\ pc = "fetching"
    /\ response' = r
    /\ vertices' = loadOBJ(r.body).verts
    /\ faces' = loadOBJ(r.body).facs
    /\ animate
    /\ UNCHANGED <<path, dragging, lastX, lastY, mouseX, mouseY, v0X, v0Y, moved,
                   everDragMove>>

harnessIdle ==
    /\ text = <<>>
    /\ loadPc = "idle"
    /\ p = <<Zero, Zero, Zero>>
    /\ stylePc = "idle"
    /\ drawn = FALSE
    /\ radius = Zero
    /\ alpha = Zero
    /\ cursorSizeEffect = Zero
    /\ cursorAlphaEffect = Zero
    /\ cursorFactor = Zero

\* lines 142-152: the state when the script has run
Init ==
    /\ pc = "discovering"
    /\ path = ""
    /\ response = NoResponse
    /\ vertices = <<>>
    /\ faces = <<>>
    /\ rotationMatrix = identityMatrix
    /\ velX = Zero
    /\ velY = Zero
    /\ dragging = FALSE
    /\ lastX = -1     \* undefined until the first mousedown; not read before it
    /\ lastY = -1
    /\ mouseX = Div(Num(canvasWidth), Num(2))
    /\ mouseY = Div(Num(canvasHeight), Num(2))
    /\ frame = 0
    /\ events = 0
    /\ kTicks = 0
    /\ v0X = Zero
    /\ v0Y = Zero
    /\ moved = FALSE
    /\ everDragMove = FALSE
    /\ harnessIdle

Next ==
    \/ \E listing \in Listings : DirectoryFetched(listing)
    \/ FetchRejected
    \/ \E r \in Responses : ModelFetched(r)
    \/ Frame
    \/ \E at \in PointerAt : mousedown(at[1], at[2])
    \/ mouseup
    \/ \E at \in PointerAt : mousemove(at[1], at[2])

Spec == Init /\ [][Next]_vars

(***************************************************************************)
(* Loader harness: loadOBJ applied to every text of Texts.                 *)
(***************************************************************************)
InitLoad ==
    /\ text \in Texts
    /\ loadPc = "input"
    /\ pc = "discovering"
    /\ path = ""
    /\ response = NoResponse
    /\ vertices = <<>>
    /\ faces = <<>>
    /\ rotationMatrix = identityMatrix
    /\ velX = Zero
    /\ velY = Zero
    /\ dragging = FALSE
    /\ lastX = -1
    /\ lastY = -1
    /\ mouseX = Div(Num(canvasWidth), Num(2))
    /\ mouseY = Div(Num(canvasHeight), Num(2))
    /\ frame = 0
    /\ events = 0
    /\ kTicks = 0
    /\ v0X = Zero
    /\ v0Y = Zero
    /\ moved = FALSE
    /\ everDragMove = FALSE
    /\ p = <<Zero, Zero, Zero>>
    /\ stylePc = "idle"
    /\ drawn = FALSE
    /\ radius = Zero
    /\ alpha = Zero
    /\ cursorSizeEffect = Zero
    /\ cursorAlphaEffect = Zero
    /\ cursorFactor = Zero

\* lines 343-345: the loaded model is stored
LoadText ==
    /\ loadPc = "input"
    /\ vertices' = loadOBJ(text).verts
    /\ faces' = loadOBJ(text).facs
    /\ loadPc' = "returned"
    /\ UNCHANGED <<pc, path, response, rotationMatrix, velX, velY, dragging, lastX,
                   lastY, mouseX, mouseY, frame, events, kTicks, v0X, v0Y, moved,
                   everDragMove, text, p, stylePc, drawn, radius, alpha,
                   cursorSizeEffect, cursorAlphaEffect, cursorFactor>>

NextLoad == LoadText

SpecLoad == InitLoad /\ [][NextLoad]_vars

(***************************************************************************)
(* Style resolver (lines 243-265 and 280-306) and its harness: the styles  *)
(* of a dot at projected point p and of a face with centroid p, for the    *)
(* cursor at (mouseX, mouseY).                                             *)
(***************************************************************************)
CoordStep == dotCursorEffectRadius \div 5
MaxCoord == MaxCoordK * CoordStep
Coords == {k * CoordStep : k \in 0..MaxCoordK}
Depths == {-MaxDepth, -300, -46, -1, 0, 1, 150, MaxDepth}

IsSquare(i) == \E r \in 0..(2 * MaxCoord) : r * r = i
IntSqrt(i) == CHOOSE r \in 0..(2 * MaxCoord) : r * r = i

\* Math.sqrt, exact on the squares of rationals (the harness feeds no other
\* numbers); sqrt(NaN) is NaN
Sqrt(a) == IF IsNaN(a) THEN NaN ELSE Rat(IntSqrt(a.n), IntSqrt(a.d))

Dist(pp, mx, my) ==
    LET dx == Sub(pp[1], mx)
        dy == Sub(pp[2], my)
    IN Sqrt(Add(Mul(dx, dx), Mul(dy, dy)))

\* Math.min(Math.max(v, lo), hi)
Clamp(v, lo, hi) == Min2(Max2(v, lo), hi)

DotStyleNoUpperClamp(pp, mx, my) ==
    LET z == Neg(pp[3])
        baseRadius == Add(Mul(z, dotSizeDepthEffect), dotSizeOffset)
        baseAlpha == Add(Mul(z, dotAlphaDepthEffect), dotAlphaOffset)
        cf == Min2(Div(Dist(pp, mx, my), Num(dotCursorEffectRadius)), One)
        near == Greater(z, Num(dotCursorZCutoff))
        cse == IF near THEN Mul(Sub(One, cf), Num(dotCursorSizeBoost)) ELSE Zero
        cae == IF near THEN Mul(Sub(One, cf), Num(dotCursorAlphaBoost)) ELSE Zero
    IN [cursorFactor |-> cf, cursorSizeEffect |-> cse, cursorAlphaEffect |-> cae,
        radius |-> Max2(Add(baseRadius, cse), Num(dotMinSize)),
        alpha |-> Max2(Add(baseAlpha, cae), dotMinAlpha)]

DotStyleNoFactorCap(pp, mx, my) ==
    LET z == Neg(pp[3])
        baseRadius == Add(Mul(z, dotSizeDepthEffect), dotSizeOffset)
        baseAlpha == Add(Mul(z, dotAlphaDepthEffect), dotAlphaOffset)
        cf == Div(Dist(pp, mx, my), Num(dotCursorEffectRadius))
        near == Greater(z, Num(dotCursorZCutoff))
        cse == IF near THEN Mul(Sub(One, cf), Num(dotCursorSizeBoost)) ELSE Zero
        cae == IF near THEN Mul(Sub(One, cf), Num(dotCursorAlphaBoost)) ELSE Zero
    IN [cursorFactor |-> cf, cursorSizeEffect |-> cse, cursorAlphaEffect |-> cae,
        radius |-> Clamp(Add(baseRadius, cse), Num(dotMinSize), Num(dotMaxSize)),
        alpha |-> Clamp(Add(baseAlpha, cae), dotMinAlpha, Num(dotMaxAlpha))]

\* lines 281-306: one dot
DotStyle(pp, mx, my) ==
    LET z == Neg(pp[3])
        baseRadius == Add(Mul(z, dotSizeDepthEffect), dotSizeOffset)
        baseAlpha == Add(Mul(z, dotAlphaDepthEffect), dotAlphaOffset)
        cf == Min2(Div(Dist(pp, mx, my), Num(dotCursorEffectRadius)), One)
        near == Greater(z, Num(dotCursorZCutoff))
        cse == IF near THEN Mul(Sub(One, cf), Num(dotCursorSizeBoost)) ELSE Zero
        cae == IF near THEN Mul(Sub(One, cf), Num(dotCursorAlphaBoost)) ELSE Zero
    IN [cursorFactor |-> cf, cursorSizeEffect |-> cse, cursorAlphaEffect |-> cae,
        radius |-> Clamp(Add(baseRadius, cse), Num(dotMinSize), Num(dotMaxSize)),
        alpha |-> Clamp(Add(baseAlpha, cae), dotMinAlpha, Num(dotMaxAlpha))]

\* lines 248-265: one face, avg its centroid <<avgX, avgY, avgZ>>
LineStyle(avg, mx, my) ==
    LET cf == Min2(Div(Dist(avg, mx, my), Num(lineCursorEffectRadius)), One)
        baseAlpha == Num(lineAlphaOffset)
        cursorEffect == IF Less(avg[3], Num(lineCursorZCutoff))
                        THEN Mul(Sub(One, cf), Num(lineCursorAlphaBoost))
                        ELSE Zero
    IN [cursorFactor |-> cf,
        alpha |-> Clamp(Add(baseAlpha, cursorEffect), Num(lineMinAlpha),
                        Num(lineMaxAlpha))]

\* the projected points: numeric ones, and the all-NaN point that a model with
\* NaN vertices (a non-numeric token, or maxSize = 0) projects to
Points ==
    {<<Num(x), Num(y), Num(z)>> : x \in Coords, y \in Coords, z \in Depths}
        \cup {<<NaN, NaN, NaN>>}

InitStyle ==
    /\ p \in Points
    /\ \E x \in Coords, y \in Coords : mouseX = Num(x) /\ mouseY = Num(y)
    /\ \/ IsNaN(p[1])
       \/ IsSquare((p[1].n - mouseX.n) * (p[1].n - mouseX.n)
                   + (p[2].n - mouseY.n) * (p[2].n - mouseY.n))
    /\ stylePc = "input"
    /\ drawn = FALSE
    /\ radius = Zero
    /\ alpha = Zero
    /\ cursorSizeEffect = Zero
    /\ cursorAlphaEffect = Zero
    /\ cursorFactor = Zero
    /\ text = <<>>
    /\ loadPc = "idle"
    /\ pc = "running"
    /\ path = ""
    /\ response = NoResponse
    /\ vertices = <<>>
    /\ faces = <<>>
    /\ rotationMatrix = identityMatrix
    /\ velX = Zero
    /\ velY = Zero
    /\ dragging = FALSE
    /\ lastX = -1
    /\ lastY = -1
    /\ frame = 0
    /\ events = 0
    /\ kTicks = 0
    /\ v0X = Zero
    /\ v0Y = Zero
    /\ moved = FALSE
    /\ everDragMove = FALSE

styleFixed == <<pc, path, response, vertices, faces, rotationMatrix, velX, velY,
                dragging, lastX, lastY, mouseX, mouseY, frame, events, kTicks, v0X,
                v0Y, moved, everDragMove, text, loadPc, p>>

\* lines 280-311: the dot at p is styled and drawn; ctx.arc (line 310) returns
\* without adding a circle when an argument is NaN or infinite
DrawDot ==
    /\ stylePc = "input"
    /\ stylePc' = "dot"
    /\ radius' = DotStyle(p, mouseX, mouseY).radius
    /\ alpha' = DotStyle(p, mouseX, mouseY).alpha
    /\ cursorSizeEffect' = DotStyle(p, mouseX, mouseY).cursorSizeEffect
    /\ cursorAlphaEffect' = DotStyle(p, mouseX, mouseY).cursorAlphaEffect
    /\ cursorFactor' = DotStyle(p, mouseX, mouseY).cursorFactor
    /\ drawn' = (IsFinite(p[1]) /\ IsFinite(p[2]) /\ IsFinite(radius'))
    /\ UNCHANGED styleFixed

\* lines 243-276: the face with centroid p is styled and drawn
DrawFace ==
    /\ stylePc = "input"
    /\ stylePc' = "line"
    /\ alpha' = LineStyle(p, mouseX, mouseY).alpha
    /\ cursorFactor' = LineStyle(p, mouseX, mouseY).cursorFactor
    /\ UNCHANGED <<drawn, radius, cursorSizeEffect, cursorAlphaEffect>>
    /\ UNCHANGED styleFixed

NextStyle == DrawDot \/ DrawFace

SpecStyle == InitStyle /\ [][NextStyle]_vars

(***************************************************************************)
(* Claims checked under Spec.                                              *)
(***************************************************************************)
epsilon == Rat(1, 10000)
IsTick == frame' = frame + 1
Composed ==
    multiplyMatrices(rotationMatrixY(velY),
        multiplyMatrices(rotationMatrixX(velX), rotationMatrix))
Started == pc \in {"running", "threw"}

\* the model was fetched with an ok response and the loop is running (the
\* startup the claims on the rotation state are about)
Loaded == ~response.none /\ response.ok /\ pc = "running"

\* C1: with no new drag input, after k animate ticks the velocity is the velocity
\* the last drag input set, times rotationInertia^k (v0 is 0 before any drag).
C1_InertiaDecay ==
    Loaded =>
        /\ velX = Mul(v0X, Pow(rotationInertia, kTicks))
        /\ velY = Mul(v0Y, Pow(rotationInertia, kTicks))

\* C5: animate runs only after the Loading -> Running transition; Running is
\* entered only with a discovered .obj whose fetch succeeded and whose text was
\* parsed; a startup that failed never runs a tick.
C5_StartupLifecycle ==
    /\ frame > 0 => Started
    /\ Started => /\ path # ""
                  /\ ~response.none
                  /\ response.ok
                  /\ vertices = loadOBJ(response.body).verts
                  /\ faces = loadOBJ(response.body).facs
    /\ pc = "rejected" => frame = 0

\* C6: once the first animate tick has started, every tick runs to its end and
\* schedules the next one: the loop is never stopped.
C6_RunningIsPermanent == frame > 0 => pc = "running"

C9_FreezeGuard ==
    [][IsTick /\ Loaded' =>
         IF Greater(Abs(velX), epsilon) \/ Greater(Abs(velY), epsilon)
         THEN /\ rotationMatrix' = Composed
              /\ velX' = Mul(velX, rotationInertia)
              /\ velY' = Mul(velY, rotationInertia)
         ELSE UNCHANGED <<rotationMatrix, velX, velY>>]_vars

\* C10: while no mousemove has arrived during a drag, the velocity is zero and
\* the rotation matrix is the identity; a mousemove outside a drag changes only
\* mouseX and mouseY.
C10_NoDragNoRotation ==
    /\ [](~everDragMove =>
            velX = Zero /\ velY = Zero /\ rotationMatrix = identityMatrix)
    /\ [][~dragging /\ (\E at \in PointerAt : mousemove(at[1], at[2])) =>
            UNCHANGED <<pc, path, response, vertices, faces, rotationMatrix, velX,
                        velY, dragging, lastX, lastY, frame>>]_vars

\* C10 witness: ticks, a mousedown and mousemoves outside a drag have happened,
\* no mousemove came during a drag.
C10_Witness ==
    /\ ~everDragMove /\ dragging /\ frame = MaxFrames
    /\ mouseX = Zero /\ mouseY = Num(MaxPixel)
    /\ velX = Zero /\ rotationMatrix = identityMatrix

(***************************************************************************)
(* Claims checked under SpecLoad.                                          *)
(***************************************************************************)
Returned == loadPc = "returned"
AllFinite(verts) == \A i \in 1..Len(verts) : \A a \in 1..3 : IsFinite(verts[i][a])
Centered(verts) == \A a \in 1..3 : Center(verts, a) = Zero

\* C3 (as claimed): for every non-empty set of parsed positions the loaded
\* vertices' bounding box has largest span modelScale and its center at the origin.
C3_Normalization ==
    Returned /\ ParseVerts(text) # <<>> =>
        MaxSize(vertices) = Num(modelScale) /\ Centered(vertices)

\* C3 (amended): the same, for the sets of parsed positions whose coordinates
\* are all numbers and that span more than a single point.
C3_NormalizationNonDegenerate ==
    Returned /\ AllFinite(ParseVerts(text))
             /\ Greater(MaxSize(ParseVerts(text)), Zero) =>
        MaxSize(vertices) = Num(modelScale) /\ Centered(vertices)

\* C3 witness: three distinct vertices with a fractional coordinate were loaded
\* and rescaled.
C3_Witness ==
    /\ Returned /\ Len(vertices) = 3
    /\ AllFinite(ParseVerts(text))
    /\ MaxSize(ParseVerts(text)) = Num(4)
    /\ MaxSize(vertices) = Num(modelScale)
    /\ \E i \in 1..3 : vertices[i][3] = Rat(375, 4)

\* C7: after loadOBJ returns, every index of every face is an integer i with
\* 0 <= i < number of loaded vertices.
C7_FaceIndexBounds ==
    Returned =>
        \A i \in 1..Len(faces) : \A j \in 1..Len(faces[i]) :
            /\ faces[i][j].d = 1
            /\ 0 <= faces[i][j].n
            /\ faces[i][j].n < Len(vertices)

(***************************************************************************)
(* Claims checked under SpecStyle.                                         *)
(***************************************************************************)
InRange(v, lo, hi) == LessEq(lo, v) /\ LessEq(v, hi)
DistSquared ==
    Add(Mul(Sub(p[1], mouseX), Sub(p[1], mouseX)),
        Mul(Sub(p[2], mouseY), Sub(p[2], mouseY)))
AtCursor == p[1] = mouseX /\ p[2] = mouseY
BeyondRadius ==
    LessEq(Num(dotCursorEffectRadius * dotCursorEffectRadius), DistSquared)

\* C2: for every depth and cursor position the radius of a dot that is drawn
\* lies in [dotMinSize, dotMaxSize] and its alpha in [dotMinAlpha, dotMaxAlpha],
\* and a face's line alpha lies in [lineMinAlpha, lineMaxAlpha].
C2_Clamping ==
    /\ stylePc = "dot" /\ drawn =>
          /\ InRange(radius, Num(dotMinSize), Num(dotMaxSize))
          /\ InRange(alpha, dotMinAlpha, Num(dotMaxAlpha))
    /\ stylePc = "dot" /\ IsFinite(p[3]) => drawn
    /\ stylePc = "line" => InRange(alpha, Num(lineMinAlpha), Num(lineMaxAlpha))

\* C2 witness: a dot at the extreme near depth, under the cursor, drawn with the
\* maximal radius and alpha.
C2_Witness ==
    /\ stylePc = "dot" /\ drawn /\ p[3] = Num(-MaxDepth) /\ AtCursor
    /\ radius = Num(dotMaxSize) /\ alpha = Num(dotMaxAlpha)

\* C4 (as claimed): a dot at the cursor has cursorFactor 0 and the full boosts;
\* a dot at or beyond dotCursorEffectRadius has both boosts exactly 0.
C4_CursorFalloff ==
    stylePc = "dot" =>
        /\ AtCursor => /\ cursorFactor = Zero
                       /\ cursorSizeEffect = Num(dotCursorSizeBoost)
                       /\ cursorAlphaEffect = Num(dotCursorAlphaBoost)
        /\ BeyondRadius => cursorSizeEffect = Zero /\ cursorAlphaEffect = Zero

\* C4 (amended): a dot at the cursor has cursorFactor 0, and the full boosts when
\* its negated depth exceeds dotCursorZCutoff (both boosts are 0 otherwise); a
\* dot at or beyond dotCursorEffectRadius has both boosts exactly 0.
C4_CursorFalloffInFront ==
    stylePc = "dot" =>
        /\ AtCursor =>
              /\ cursorFactor = Zero
              /\ IF Greater(Neg(p[3]), Num(dotCursorZCutoff))
                 THEN /\ cursorSizeEffect = Num(dotCursorSizeBoost)
                      /\ cursorAlphaEffect = Num(dotCursorAlphaBoost)
                 ELSE cursorSizeEffect = Zero /\ cursorAlphaEffect = Zero
        /\ BeyondRadius => cursorSizeEffect = Zero /\ cursorAlphaEffect = Zero

\* C4 witness: a dot in front of the cutoff, at the cursor, with the full boosts.
C4_Witness ==
    /\ stylePc = "dot" /\ AtCursor /\ p[3] = Num(-1)
    /\ cursorFactor = Zero
    /\ cursorSizeEffect = Num(dotCursorSizeBoost)

====
